---- MODULE Spec2Model ----
(***************************************************************************)
(* A model of the bqls language server's semantic navigation engine:       *)
(*   - the diagnostic scheduler      (langserver/diagnostic.go, 9-47)      *)
(*   - the document cache and hover  (Project.TermDocument and helpers)    *)
(*   - the position mapper           (positionToByteOffset and back)       *)
(*   - the node locator              (searchAstNode, lookupNode)           *)
(* Each part has its own specification over the shared variables.          *)
(***************************************************************************)
EXTENDS Integers, Sequences, FiniteSets, TLC

VARIABLES
    \* ---- diagnostic scheduler (handler.diagnostic)
    diagnosticRequest,  \* the channel h.diagnosticRequest: URIs sent, not yet received
    closed,             \* the channel has been closed
    sent,               \* number of events sent so far
    loopPc,             \* position of the scheduler loop
    loopUri,            \* the uri the loop received and is processing
    running,            \* the map running: uri -> id of the run whose cancel is stored
    runs,               \* one record per goroutine started at line 26
    published,          \* the publishDiagnostics notifications sent, in order
    \* ---- position mapper (positionToByteOffset, byteOffsetToPosition)
    posText,            \* the text, a sequence of bytes
    posPosition,        \* the lsp.Position asked for
    posOffset,          \* the result of positionToByteOffset
    posBack,            \* the result of byteOffsetToPosition on posOffset
    posPc,              \* "start", "offset" or "done"
    \* ---- node locator (searchAstNode, searchResolvedAstNode)
    snTree,             \* the tree searched: its nodes in the order Walk visits them
    snOffset,           \* termOffset
    snAst,              \* the result of searchAstNode
    snResolved,         \* the result of searchResolvedAstNode
    snPc,               \* "start", "ast" or "done"
    \* ---- document cache and hover (Project, Project.TermDocument)
    cache,              \* p.cache: path -> the text held, or NoFile
    hover,              \* the hover request: its position in TermDocument, its outcome
    \* ---- scan selection (getSelectColumnNodeToAnalyzedOutputCoumnNode, 196-219)
    scScanNodes,        \* the ranges of the scan nodes collected, in walk order
    scOffset,           \* termOffset
    scTarget,           \* targetScanNode: an index of scScanNodes, 0 for nil
    scPc                \* "start" or "done"

schedVars == <<diagnosticRequest, closed, sent, loopPc, loopUri, running, runs, published>>

posVars == <<posText, posPosition, posOffset, posBack, posPc>>

searchVars == <<snTree, snOffset, snAst, snResolved, snPc>>

hoverVars == <<cache, hover>>

scanVars == <<scScanNodes, scOffset, scTarget, scPc>>

vars == <<schedVars, posVars, searchVars, hoverVars, scanVars>>

\* What the scheduler's actions leave alone.
notSched == <<posVars, searchVars, hoverVars, scanVars>>

\* What the position mapper's actions leave alone.
notPos == <<schedVars, searchVars, hoverVars, scanVars>>

\* What the node locator's actions leave alone.
notSearch == <<schedVars, posVars, hoverVars, scanVars>>

\* What the cache's and the hover's actions leave alone.
notHover == <<schedVars, posVars, searchVars, scanVars>>

\* What the scan selection leaves alone.
notScan == <<schedVars, posVars, searchVars, hoverVars>>

(***************************************************************************)
(* Bounds                                                                  *)
(***************************************************************************)
MaxEvents == 3

MaxTextLen == 4

MaxNodes == 3

MaxOffset == 1

MaxExprNodes == 2

MaxOutputs == 2

MaxScans == 3

MaxChain == 2

URIs == {"a.sql", "b.sql"}

NoRun == 0

(***************************************************************************)
(* Diagnostic scheduler                                                    *)
(***************************************************************************)

\* The empty map: make(map[lsp.DocumentURI][]lsp.Diagnostic)
EmptyDiagnostics == [u \in {} |-> <<>>]

\* A diagnose that reports one file (with an empty diagnostic list).
diagnoseOneFile(ctx, uri) == [result |-> [u \in {uri} |-> <<>>], err |-> FALSE]

\* handler.diagnose: returns the freshly made, empty map and a nil error.
diagnose(ctx, uri) == [result |-> EmptyDiagnostics, err |-> FALSE]

\* A cancel that does nothing.
cancelNothing(rs, id) == rs

\* cancel(): the context of run id becomes cancelled.
cancel(rs, id) == [rs EXCEPT ![id].cancelled = TRUE]

\* A client edit: the transport sends the uri on h.diagnosticRequest.
DidChange(u) ==
    /\ ~closed
    /\ sent < MaxEvents
    /\ diagnosticRequest' = Append(diagnosticRequest, u)
    /\ sent' = sent + 1
    /\ UNCHANGED <<closed, loopPc, loopUri, running, runs, published>>
    /\ UNCHANGED notSched

\* The event stream is closed.
CloseRequests ==
    /\ ~closed
    /\ closed' = TRUE
    /\ UNCHANGED <<diagnosticRequest, sent, loopPc, loopUri, running, runs, published>>
    /\ UNCHANGED notSched

\* Lines 13-16: uri, ok := <-h.diagnosticRequest; if !ok { break }
LoopReceive ==
    /\ loopPc = "recv"
    /\ IF diagnosticRequest # <<>>
         THEN /\ loopUri' = Head(diagnosticRequest)
              /\ diagnosticRequest' = Tail(diagnosticRequest)
              /\ loopPc' = "cancel"
         ELSE /\ closed
              /\ loopPc' = "exit"
              /\ UNCHANGED <<loopUri, diagnosticRequest>>
    /\ UNCHANGED <<closed, sent, running, runs, published>>
    /\ UNCHANGED notSched

\* Lines 18-21: cancel, ok := running[uri]; if ok { cancel() }
LoopCancel ==
    /\ loopPc = "cancel"
    /\ runs' = IF running[loopUri] # NoRun THEN cancel(runs, running[loopUri]) ELSE runs
    /\ loopPc' = "start"
    /\ UNCHANGED <<diagnosticRequest, closed, sent, loopUri, running, published>>
    /\ UNCHANGED notSched

\* A loop that joins the tasks it started before it starts the next one.
LoopStartJoined ==
    /\ loopPc = "start"
    /\ \A r \in 1..Len(runs) : runs[r].pc = "done"
    /\ runs' = Append(runs, [uri |-> loopUri, cancelled |-> FALSE, pc |-> "diagnose",
                             diagnostics |-> EmptyDiagnostics, todo |-> {}])
    /\ running' = [running EXCEPT ![loopUri] = Len(runs) + 1]
    /\ loopPc' = "recv"
    /\ UNCHANGED <<diagnosticRequest, closed, sent, loopUri, published>>
    /\ UNCHANGED notSched

\* Lines 23-26: a new cancellable context, its cancel stored, the goroutine started.
LoopStart ==
    /\ loopPc = "start"
    /\ runs' = Append(runs, [uri |-> loopUri, cancelled |-> FALSE, pc |-> "diagnose",
                             diagnostics |-> EmptyDiagnostics, todo |-> {}])
    /\ running' = [running EXCEPT ![loopUri] = Len(runs) + 1]
    /\ loopPc' = "recv"
    /\ UNCHANGED <<diagnosticRequest, closed, sent, loopUri, published>>
    /\ UNCHANGED notSched

\* Lines 27-31 of the goroutine: diagnose, and on an error log and return.
RunDiagnose(r) ==
    /\ runs[r].pc = "diagnose"
    /\ LET d == diagnose(runs[r].cancelled, runs[r].uri)
       IN runs' = IF d.err
                    THEN [runs EXCEPT ![r].pc = "done"]
                    ELSE [runs EXCEPT ![r].pc = "publish",
                                      ![r].diagnostics = d.result,
                                      ![r].todo = DOMAIN d.result]
    /\ UNCHANGED <<diagnosticRequest, closed, sent, loopPc, loopUri, running, published>>
    /\ UNCHANGED notSched

\* Lines 33-38 of the goroutine: one iteration of the range over diagnostics
\* (Go fixes no order), or the end of the loop. Notify is called whatever the
\* state of ctx.
RunNotify(r) ==
    /\ runs[r].pc = "publish"
    /\ IF runs[r].todo = {}
         THEN /\ runs' = [runs EXCEPT ![r].pc = "done"]
              /\ UNCHANGED published
         ELSE \E f \in runs[r].todo :
                /\ published' = Append(published,
                      [run |-> r, uri |-> f, diagnostics |-> runs[r].diagnostics[f]])
                /\ runs' = [runs EXCEPT ![r].todo = @ \ {f}]
    /\ UNCHANGED <<diagnosticRequest, closed, sent, loopPc, loopUri, running>>
    /\ UNCHANGED notSched

(***************************************************************************)
(* Position mapper                                                         *)
(***************************************************************************)

\* The bytes texts are made of: a letter, carriage return, line feed.
Bytes == {"a", "\r", "\n"}

RECURSIVE SeqsUpTo(_, _)
\* All sequences over S of length at most n.
SeqsUpTo(S, n) ==
    IF n = 0 THEN {<<>>}
    ELSE LET shorter == SeqsUpTo(S, n - 1)
         IN shorter \cup {Append(t, b) : t \in {x \in shorter : Len(x) = n - 1}, b \in S}

\* bytes.IndexByte(data, '\n'), 1-based; 0 when there is none.
IndexLF(data) ==
    IF \E i \in 1..Len(data) : data[i] = "\n"
      THEN CHOOSE i \in 1..Len(data) :
               /\ data[i] = "\n"
               /\ \A j \in 1..(i - 1) : data[j] # "\n"
      ELSE 0

\* bufio's dropCR: a trailing carriage return is removed from the token.
dropCR(data) ==
    IF Len(data) > 0 /\ data[Len(data)] = "\r"
      THEN SubSeq(data, 1, Len(data) - 1)
      ELSE data

\* bufio.ScanLines on the non-empty rest of the input, all of it read (atEOF).
ScanLines(data) ==
    LET i == IndexLF(data)
    IN IF i > 0 THEN [advance |-> i, token |-> dropCR(SubSeq(data, 1, i - 1))]
       ELSE [advance |-> Len(data), token |-> dropCR(data)]

RECURSIVE ScanTokens(_)
\* The tokens the successive buf.Scan() calls yield, until Scan returns false.
ScanTokens(data) ==
    IF data = <<>> THEN <<>>
    ELSE LET s == ScanLines(data)
         IN <<s.token>> \o ScanTokens(SubSeq(data, s.advance + 1, Len(data)))

\* buf.Text() after the i-th buf.Scan(): the token, or "" once Scan has returned false.
ScanText(tokens, i) == IF i <= Len(tokens) THEN tokens[i] ELSE <<>>

RECURSIVE SumLines(_, _)
\* The loop of lines 334-337: offset += len([]byte(buf.Text())) + 1, n times.
SumLines(tokens, n) ==
    IF n = 0 THEN 0
    ELSE SumLines(tokens, n - 1) + Len(ScanText(tokens, n)) + 1

\* positionToByteOffset(sql, position)
positionToByteOffset(sql, position) ==
    SumLines(ScanTokens(sql), position.line) + position.character

RECURSIVE Split(_)
\* strings.Split(sql, "\n")
Split(s) ==
    LET i == IndexLF(s)
    IN IF i = 0 THEN <<s>>
       ELSE <<SubSeq(s, 1, i - 1)>> \o Split(SubSeq(s, i + 1, Len(s)))

RECURSIVE WalkLines(_, _, _)
\* The loop of lines 346-356 from the k-th line on, the k-1 lines before consumed.
WalkLines(lines, k, offset) ==
    IF k > Len(lines) THEN [found |-> FALSE, line |-> 0, character |-> 0]
    ELSE IF offset < Len(lines[k]) + 1
           THEN [found |-> TRUE, line |-> k - 1, character |-> offset]
           ELSE WalkLines(lines, k + 1, offset - (Len(lines[k]) + 1))

\* byteOffsetToPosition(sql, offset)
byteOffsetToPosition(sql, offset) == WalkLines(Split(sql), 1, offset)

Texts == SeqsUpTo(Bytes, MaxTextLen)

Positions == [line : 0..MaxTextLen, character : 0..MaxTextLen]

NoPosition == [found |-> FALSE, line |-> 0, character |-> 0]

\* A caller maps a position of a text to its byte offset.
PositionToByteOffset ==
    /\ posPc = "start"
    /\ posOffset' = positionToByteOffset(posText, posPosition)
    /\ posPc' = "offset"
    /\ UNCHANGED <<posText, posPosition, posBack>>
    /\ UNCHANGED notPos

\* The caller maps the offset back to a position.
ByteOffsetToPosition ==
    /\ posPc = "offset"
    /\ posBack' = byteOffsetToPosition(posText, posOffset)
    /\ posPc' = "done"
    /\ UNCHANGED <<posText, posPosition, posOffset>>
    /\ UNCHANGED notPos

\* The position mapper at rest, in the specifications of the other parts.
PosIdle ==
    /\ posText = <<>>
    /\ posPosition = [line |-> 0, character |-> 0]
    /\ posOffset = 0
    /\ posBack = NoPosition
    /\ posPc = "idle"

PosInit ==
    /\ posText \in Texts
    /\ posPosition \in Positions
    /\ posOffset = 0
    /\ posBack = NoPosition
    /\ posPc = "start"

(***************************************************************************)
(* Node locator                                                            *)
(***************************************************************************)

\* A tree is the sequence of its nodes in the order ast.Walk / rast.Walk visit
\* them (depth first, a node before its children); each node has its kind, its
\* ParseLocationRange (possibly nil) and the index of its parent (0: the root).

\* ParseLocationRange() == nil
NoRange == [has |-> FALSE, start |-> 0, end |-> 0]

Ranges ==
    {NoRange} \cup
    {[has |-> TRUE, start |-> ab[1], end |-> ab[2]] :
        ab \in {x \in (0..MaxOffset) \X (0..MaxOffset) : x[1] <= x[2]}}

\* The node kind searched for (the type parameter T) and another kind.
Kinds == {"T", "Other"}

RECURSIVE Ancestors(_, _)
\* The proper ancestors of node i, by parent links.
Ancestors(parent, i) ==
    IF parent[i] = 0 THEN {} ELSE {parent[i]} \cup Ancestors(parent, parent[i])

\* The parent links of the trees of n nodes listed parent first, children in
\* order: a node's parent is the node before it or one of that node's ancestors.
ParentLinks(n) ==
    {p \in [1..n -> 0..n] :
        \A i \in 1..n :
            IF i = 1 THEN p[i] = 0
            ELSE /\ p[i] \in 1..(i - 1)
                 /\ p[i] = i - 1 \/ p[i] \in Ancestors([j \in 1..(i - 1) |-> p[j]], i - 1)}

\* Whether a node's range holds the offset: startOffset <= termOffset <= endOffset.
InRange(rng, termOffset) == rng.start <= termOffset /\ termOffset <= rng.end

\* The zero value of T, with found = false.
NotFound == [node |-> 0, found |-> FALSE]

\* A search that keeps the first match.
searchAstNodeFirst(tree, T, termOffset) ==
    LET visit[i \in 0..Len(tree)] ==
            IF i = 0 THEN NotFound
            ELSE IF visit[i - 1].found THEN visit[i - 1]
            ELSE IF tree[i].kind # T THEN visit[i - 1]
            ELSE IF ~tree[i].rng.has THEN visit[i - 1]
            ELSE IF InRange(tree[i].rng, termOffset)
                   THEN [node |-> i, found |-> TRUE]
                   ELSE visit[i - 1]
    IN visit[Len(tree)]

\* searchAstNode[T](node, termOffset): visit[i] is (targetNode, found) after
\* the callback has run on the first i nodes.
searchAstNode(tree, T, termOffset) ==
    LET visit[i \in 0..Len(tree)] ==
            IF i = 0 THEN NotFound
            ELSE IF tree[i].kind # T THEN visit[i - 1]
            ELSE IF ~tree[i].rng.has THEN visit[i - 1]
            ELSE IF InRange(tree[i].rng, termOffset)
                   THEN [node |-> i, found |-> TRUE]
                   ELSE visit[i - 1]
    IN visit[Len(tree)]

\* searchResolvedAstNode[T](output, termOffset), on output.Statement().
searchResolvedAstNode(tree, T, termOffset) ==
    LET visit[i \in 0..Len(tree)] ==
            IF i = 0 THEN NotFound
            ELSE IF tree[i].kind # T THEN visit[i - 1]
            ELSE IF ~tree[i].rng.has THEN visit[i - 1]
            ELSE IF InRange(tree[i].rng, termOffset)
                   THEN [node |-> i, found |-> TRUE]
                   ELSE visit[i - 1]
        r == visit[Len(tree)]
    IN IF r.found THEN r ELSE [node |-> r.node, found |-> FALSE]

\* The surface tree is searched for the node of kind T at the offset.
SearchAst ==
    /\ snPc = "start"
    /\ snAst' = searchAstNode(snTree, "T", snOffset)
    /\ snPc' = "ast"
    /\ UNCHANGED <<snTree, snOffset, snResolved>>
    /\ UNCHANGED notSearch

\* The same tree, as a resolved statement, is searched.
SearchResolved ==
    /\ snPc = "ast"
    /\ snResolved' = searchResolvedAstNode(snTree, "T", snOffset)
    /\ snPc' = "done"
    /\ UNCHANGED <<snTree, snOffset, snAst>>
    /\ UNCHANGED notSearch

\* The node locator at rest, in the specifications of the other parts.
SearchIdle ==
    /\ snTree = <<>>
    /\ snOffset = 0
    /\ snAst = NotFound
    /\ snResolved = NotFound
    /\ snPc = "idle"

SearchInit ==
    /\ \E n \in 0..MaxNodes :
         \E p \in ParentLinks(n), k \in [1..n -> Kinds], r \in [1..n -> Ranges] :
            snTree = [i \in 1..n |-> [kind |-> k[i], rng |-> r[i], parent |-> p[i]]]
    /\ snOffset \in 0..MaxOffset
    /\ snAst = NotFound
    /\ snResolved = NotFound
    /\ snPc = "start"

(***************************************************************************)
(* Document cache                                                          *)
(***************************************************************************)

\* p.cache.Get(path) == nil
NoFile == "<nil>"

\* The texts a client sends.
DocTexts == {"SELECT x FROM t"}

\* cache.GlobalCache.Put(path, text)
cachePut(c, path, text) == [c EXCEPT ![path] = text]

\* cache.GlobalCache.Get(path): nil when the path is not held.
cacheGet(c, path) == c[path]

\* cache.GlobalCache.Delete(path)
cacheDelete(c, path) == [c EXCEPT ![path] = NoFile]

\* Project.GetFile(path)
GetFile(c, path) ==
    LET policy == cacheGet(c, path)
    IN IF policy = NoFile THEN [text |-> "", found |-> FALSE]
       ELSE [text |-> policy, found |-> TRUE]

(***************************************************************************)
(* Hover: Project.TermDocument                                             *)
(***************************************************************************)

\* Strings that the code takes apart are sequences of characters.
Dot == "."

RECURSIVE Join(_)
\* strings.Join(names, ".")
Join(names) ==
    IF names = <<>> THEN <<>>
    ELSE IF Len(names) = 1 THEN names[1]
    ELSE names[1] \o <<Dot>> \o Join(Tail(names))

\* strings.HasPrefix(s, prefix)
HasPrefix(s, prefix) ==
    Len(prefix) <= Len(s) /\ SubSeq(s, 1, Len(prefix)) = prefix

\* strings.TrimPrefix(s, prefix)
TrimPrefix(s, prefix) ==
    IF HasPrefix(s, prefix) THEN SubSeq(s, Len(prefix) + 1, Len(s)) ELSE s

\* The kinds of surface nodes TermDocument tells apart.
AstKinds == {"PathExpression", "TablePathExpression", "SelectColumn", "Other"}

\* The location ranges of the nodes of the trees hovered over.
HoverRanges ==
    {NoRange, [has |-> TRUE, start |-> 0, end |-> 0],
              [has |-> TRUE, start |-> 0, end |-> MaxOffset]}

RECURSIVE ParentChain(_, _)
\* The kinds of node n and of its ancestors, nearest first: what n.Parent(),
\* n.Parent().Parent(), ... yield.
ParentChain(tree, n) ==
    IF n = 0 THEN <<>>
    ELSE <<tree[n].kind>> \o ParentChain(tree, tree[n].parent)

RECURSIVE lookupNode(_, _, _)
\* lookupNode[T](n): n is the i-th node of the chain, its parent the next one.
lookupNode(chain, i, T) ==
    IF i > Len(chain) THEN [node |-> 0, found |-> FALSE]
    ELSE IF chain[i] = T THEN [node |-> i, found |-> TRUE]
    ELSE lookupNode(chain, i + 1, T)

\* The request before TermDocument is called.
IdleHover ==
    [pc |-> "idle", uri |-> "a.sql", termOffset |-> 0, ancestors |-> <<>>,
     tableStep |-> "none", columnStep |-> "none", selectStep |-> "none",
     column |-> <<>>, targetScanNode |-> 0, refNames |-> <<>>,
     outcome |-> "none", result |-> <<>>]

\* return result, err (the request is over).
Return(h, outcome, result) ==
    [h EXCEPT !.pc = "done", !.outcome = outcome, !.result = result]

\* A markdown block.
Markdown(value) == [language |-> "markdown", value |-> value]

\* The table path expression's PathExpr() is nil.
NoPath == <<"<nil>">>

\* The dotted paths of the table path expressions hovered over.
TablePaths == {NoPath, <<"t">>, <<"d", "t">>}

\* createTableNameFromTablePathExpressionNode(node)
createTableNameFromTablePathExpressionNode(pathExpr) ==
    IF pathExpr = NoPath THEN [name |-> <<>>, ok |-> FALSE]
    ELSE [name |-> Join([i \in 1..Len(pathExpr) |-> <<pathExpr[i]>>]), ok |-> TRUE]

\* getTableMetadataFromPath failed.
MetaFailed == [failed |-> TRUE, schema |-> <<>>]

\* What getTableMetadataFromPath answers: an error, or a table's metadata
\* with its schema (here no field, or the one field x).
MetaResults ==
    {MetaFailed,
     [failed |-> FALSE, schema |-> <<>>],
     [failed |-> FALSE,
      schema |-> <<[name |-> <<"x">>, type |-> "INTEGER", description |-> "the x"]>>]}

\* buildBigQueryTableMetadataMarkedString(metadata): a markdown and a yaml block.
buildBigQueryTableMetadataMarkedString(tablePath, metadata) ==
    <<Markdown(<<"## ", tablePath>>), [language |-> "yaml", value |-> metadata.schema]>>

\* A createTableMarkedString that swallows the lookup failure.
createTableMarkedStringLenient(pathExpr, metadata) ==
    LET tablePath == createTableNameFromTablePathExpressionNode(pathExpr)
    IN IF ~tablePath.ok THEN [result |-> <<>>, err |-> FALSE]
       ELSE IF metadata.failed THEN [result |-> <<>>, err |-> FALSE]
       ELSE [result |-> buildBigQueryTableMetadataMarkedString(tablePath.name, metadata),
             err |-> FALSE]

\* Project.createTableMarkedString(ctx, node); metadata is what
\* getTableMetadataFromPath answers for the node's path.
createTableMarkedString(pathExpr, metadata) ==
    LET tablePath == createTableNameFromTablePathExpressionNode(pathExpr)
    IN IF ~tablePath.ok THEN [result |-> <<>>, err |-> FALSE]
       ELSE IF metadata.failed THEN [result |-> <<>>, err |-> TRUE]
       ELSE [result |-> buildBigQueryTableMetadataMarkedString(tablePath.name, metadata),
             err |-> FALSE]

\* Project.UpdateFile(path, text, version)
UpdateFile(path, text) ==
    /\ hover.pc = "idle"
    /\ cache' = cachePut(cache, path, text)
    /\ UNCHANGED hover
    /\ UNCHANGED notHover

\* Project.DeleteFile(path)
DeleteFile(path) ==
    /\ hover.pc = "idle"
    /\ cache' = cacheDelete(cache, path)
    /\ UNCHANGED hover
    /\ UNCHANGED notHover

\* TermDocument, lines 67-78: the text is read from the cache (a nil *File is
\* dereferenced when the uri is not held), parsed, and the path expression at
\* the offset is searched for in the surface tree the parser answers.
TermDocumentLocate(uri) ==
    /\ hover.pc = "idle"
    /\ UNCHANGED cache
    /\ UNCHANGED notHover
    /\ IF cacheGet(cache, uri) = NoFile
         THEN hover' = Return([hover EXCEPT !.uri = uri], "panic", <<>>)
         ELSE \E n \in 0..MaxNodes, termOffset \in 0..MaxOffset :
              \E p \in ParentLinks(n), k \in [1..n -> AstKinds], r \in [1..n -> HoverRanges] :
                LET tree == [i \in 1..n |-> [kind |-> k[i], rng |-> r[i], parent |-> p[i]]]
                    targetNode == searchAstNode(tree, "PathExpression", termOffset)
                    h == [hover EXCEPT !.uri = uri, !.termOffset = termOffset]
                IN hover' = IF ~targetNode.found
                              THEN Return(h, "empty", <<>>)
                              ELSE [h EXCEPT !.pc = "table",
                                             !.ancestors = ParentChain(tree, targetNode.node)]

\* TermDocument, lines 80-89: the table reference step.
TermDocumentTable ==
    /\ hover.pc = "table"
    /\ UNCHANGED cache
    /\ UNCHANGED notHover
    /\ LET table == lookupNode(hover.ancestors, 1, "TablePathExpression")
       IN IF ~table.found
            THEN hover' = [hover EXCEPT !.pc = "output"]
            ELSE \E pathExpr \in TablePaths, metadata \in MetaResults :
                   LET r == createTableMarkedString(pathExpr, metadata)
                       h == [hover EXCEPT !.tableStep =
                                IF pathExpr = NoPath THEN "nopath"
                                ELSE IF metadata.failed THEN "failed" ELSE "found"]
                   IN hover' = IF r.err THEN Return(h, "error", <<>>)
                               ELSE IF Len(r.result) > 0 THEN Return(h, "result", r.result)
                               ELSE [h EXCEPT !.pc = "output"]

\* The kinds of resolved expression nodes TermDocument searches for.
ExprKinds == {"FunctionCall", "GetStructField", "ColumnRef"}

\* term.Column() == nil
NilColumn == <<>>

\* The columns the analyzer binds: name, table name and statically inferred type.
Columns ==
    {[name |-> <<"x">>, table |-> <<"t">>, type |-> "INT64"],
     [name |-> <<"y">>, table |-> <<"t">>, type |-> "STRING"]}

\* ParsedFile.FindTargetAnalyzeOutput(termOffset): the first analyzer output
\* whose span holds the offset; outputs lists the spans of the outputs.
FindTargetAnalyzeOutput(outputs, termOffset) ==
    IF \E i \in 1..Len(outputs) : InRange(outputs[i], termOffset)
      THEN [output |-> CHOOSE i \in 1..Len(outputs) :
                          /\ InRange(outputs[i], termOffset)
                          /\ \A j \in 1..(i - 1) : ~InRange(outputs[j], termOffset),
            found |-> TRUE]
      ELSE [output |-> 0, found |-> FALSE]

\* The index of the first schema field with the name, 0 when there is none:
\* the loop "for _, c := range tableMetadata.Schema".
SchemaField(schema, name) ==
    IF \E i \in 1..Len(schema) : schema[i].name = name
      THEN CHOOSE i \in 1..Len(schema) :
               /\ schema[i].name = name
               /\ \A j \in 1..(i - 1) : schema[j].name # name
      ELSE 0

\* The block "name: type" of lines 127-132 and 155-160.
InferredTypeString(column) == <<Markdown(<<column.name, ": ", column.type>>)>>

\* The block "name: type\ndescription" of lines 137-142 and 165-170.
SchemaFieldString(c) == <<Markdown(<<c.name, ": ", c.type, "\n", c.description>>)>>

\* Lines 124-144 (and again 153-172): the metadata of the column's table is
\* looked up; step is "failed", "field" or "nofield", and with "nofield"
\* nothing is returned.
columnMarkedString(column, metadata) ==
    IF metadata.failed
      THEN [step |-> "failed", returns |-> TRUE, result |-> InferredTypeString(column)]
      ELSE LET i == SchemaField(metadata.schema, column.name)
           IN IF i # 0
                THEN [step |-> "field", returns |-> TRUE,
                      result |-> SchemaFieldString(metadata.schema[i])]
                ELSE [step |-> "nofield", returns |-> FALSE, result |-> <<>>]

\* Line 147 and, when the location is in no select column, line 175.
ToSelectStep(h) ==
    IF lookupNode(h.ancestors, 1, "SelectColumn").found
      THEN [h EXCEPT !.pc = "scan"]
      ELSE Return(h, "empty", <<>>)

\* TermDocument, lines 91-94: the analyzer output whose span holds the offset;
\* the analyzer answers the spans of the statements' outputs.
TermDocumentOutput ==
    /\ hover.pc = "output"
    /\ UNCHANGED cache
    /\ UNCHANGED notHover
    /\ \E n \in 0..MaxOutputs :
       \E outputs \in [1..n -> HoverRanges \ {NoRange}] :
         hover' = IF FindTargetAnalyzeOutput(outputs, hover.termOffset).found
                    THEN [hover EXCEPT !.pc = "resolve"]
                    ELSE Return(hover, "empty", <<>>)

\* TermDocument, lines 96-118 and 147: the function call and struct field
\* steps, and the search for the column reference. The analyzer answers the
\* expression nodes of the output, in the order rast.Walk visits them; the
\* three searches look at no other node.
TermDocumentResolve ==
    /\ hover.pc = "resolve"
    /\ UNCHANGED cache
    /\ UNCHANGED notHover
    /\ \E n \in 0..MaxExprNodes :
       \E k \in [1..n -> ExprKinds], r \in [1..n -> HoverRanges] :
         LET statement == [i \in 1..n |-> [kind |-> k[i], rng |-> r[i], parent |-> i - 1]]
             call == searchResolvedAstNode(statement, "FunctionCall", hover.termOffset)
             field == searchResolvedAstNode(statement, "GetStructField", hover.termOffset)
             term == searchResolvedAstNode(statement, "ColumnRef", hover.termOffset)
         IN hover' =
              IF call.found
                THEN Return(hover, "result", <<Markdown(<<"## ", "f", "\n\n", "f(INT64)">>)>>)
              ELSE IF field.found
                THEN Return(hover, "result", <<Markdown(<<"INT64">>)>>)
              ELSE IF term.found
                THEN [hover EXCEPT !.pc = "columnref"]
              ELSE ToSelectStep(hover)

\* TermDocument, lines 119-147: the column reference step. The analyzer
\* answers the node's column (possibly nil), the metadata store the table.
TermDocumentColumnRef ==
    /\ hover.pc = "columnref"
    /\ UNCHANGED cache
    /\ UNCHANGED notHover
    /\ \E column \in Columns \cup {NilColumn}, metadata \in MetaResults :
         hover' =
           IF column = NilColumn
             THEN Return([hover EXCEPT !.columnStep = "nil"], "error", <<>>)
             ELSE LET m == columnMarkedString(column, metadata)
                      h == [hover EXCEPT !.columnStep = m.step, !.column = column]
                  IN IF m.returns THEN Return(h, "result", m.result)
                     ELSE ToSelectStep(h)

\* math.MaxInt, the value mostNarrowWidth is given and keeps.
MaxInt == 2147483647

\* Lines 207-219: the scan the loop leaves in targetScanNode (0: nil);
\* scanNodes lists the ranges of the scan nodes in the order rast.Walk visits
\* them. mostNarrowWidth is not assigned in the loop and termOffset not read.
targetScanNode(scanNodes, termOffset) ==
    LET mostNarrowWidth == MaxInt
        visit[i \in 0..Len(scanNodes)] ==
            IF i = 0 THEN 0
            ELSE IF ~scanNodes[i].has THEN visit[i - 1]
            ELSE IF scanNodes[i].end - scanNodes[i].start < mostNarrowWidth THEN i
            ELSE visit[i - 1]
    IN visit[Len(scanNodes)]

\* TermDocument, line 148, and lines 196-219 of
\* getSelectColumnNodeToAnalyzedOutputCoumnNode: the scan nodes are collected
\* and one is chosen.
TermDocumentScan ==
    /\ hover.pc = "scan"
    /\ UNCHANGED cache
    /\ UNCHANGED notHover
    /\ \E n \in 0..MaxScans :
       \E scanNodes \in [1..n -> Ranges] :
         hover' = [hover EXCEPT !.pc = "walk",
                                !.targetScanNode = targetScanNode(scanNodes, hover.termOffset)]

\* The selection of lines 207-219 on its own, for any list of scan nodes.
SelectScan ==
    /\ scPc = "start"
    /\ scTarget' = targetScanNode(scScanNodes, scOffset)
    /\ scPc' = "done"
    /\ UNCHANGED <<scScanNodes, scOffset>>
    /\ UNCHANGED notScan

\* The scan selection at rest, in the specifications of the other parts.
ScanIdle ==
    /\ scScanNodes = <<>>
    /\ scOffset = 0
    /\ scTarget = 0
    /\ scPc = "idle"

ScanInit ==
    /\ \E n \in 0..MaxScans : scScanNodes \in [1..n -> Ranges]
    /\ scOffset \in 0..MaxOffset
    /\ scTarget = 0
    /\ scPc = "start"

\* The kinds of scan nodes the walk of lines 223-244 tells apart, and one it
\* does not support.
ScanKinds ==
    {"ProjectScan", "WithScan", "OrderByScan", "TableScan", "WithRefScan", "FilterScan"}

\* The scans the walk can meet: a table scan has an alias or none, a
\* with-reference scan has the name of its query.
Scans ==
    {[kind |-> k, name |-> <<>>] : k \in ScanKinds \ {"WithRefScan"}}
    \cup {[kind |-> k, name |-> <<"a">>] : k \in {"TableScan", "WithRefScan"}}

RECURSIVE refNames(_)
\* Lines 221-244: chain lists the target scan and the scans its InputScan() /
\* Query() links lead to; the walk ends at the first scan that is not a
\* projection, with or order-by scan, or when the link is nil.
refNames(chain) ==
    IF chain = <<>> THEN <<>>
    ELSE IF chain[1].kind \in {"ProjectScan", "WithScan", "OrderByScan"}
           THEN refNames(Tail(chain))
    ELSE IF chain[1].kind = "TableScan"
           THEN IF chain[1].name # <<>> THEN <<chain[1].name>> ELSE <<>>
    ELSE IF chain[1].kind = "WithRefScan" THEN <<chain[1].name>>
    ELSE <<>>

\* The select column's Expression() is no path expression.
NotPath == <<"<expr>">>

\* The select columns hovered over: x, a.x, and an expression that is no path.
SelectColumns == {NotPath, <<"x">>, <<"a", "x">>}

\* getSelectColumnName(targetNode)
getSelectColumnName(path) ==
    IF path = NotPath THEN [name |-> <<>>, ok |-> FALSE]
    ELSE [name |-> Join([i \in 1..Len(path) |-> <<path[i]>>]), ok |-> TRUE]

RECURSIVE removeTablePrefix(_, _)
\* Lines 253-258: the loop over refNames that removes the table prefix.
removeTablePrefix(columnName, names) ==
    IF names = <<>> THEN columnName
    ELSE removeTablePrefix(TrimPrefix(columnName, names[1] \o <<Dot>>), Tail(names))

\* The column lists a scan exposes.
ColumnLists ==
    {<<>>} \cup {<<c>> : c \in Columns} \cup {<<c, d>> : c \in Columns, d \in Columns}

\* Lines 260-266: the first column of the list with the name, 0 when there is none.
ColumnNamed(columnList, columnName) ==
    IF \E i \in 1..Len(columnList) : columnList[i].name = columnName
      THEN CHOOSE i \in 1..Len(columnList) :
               /\ columnList[i].name = columnName
               /\ \A j \in 1..(i - 1) : columnList[j].name # columnName
      ELSE 0

\* Lines 221-244: the walk down the input scans of the target scan, skipped
\* when targetScanNode is nil. The analyzer answers the scans on the way.
TermDocumentWalk ==
    /\ hover.pc = "walk"
    /\ UNCHANGED cache
    /\ UNCHANGED notHover
    /\ IF hover.targetScanNode = 0
         THEN hover' = [hover EXCEPT !.pc = "name", !.refNames = <<>>]
         ELSE \E n \in 1..MaxChain :
              \E chain \in [1..n -> Scans] :
                hover' = [hover EXCEPT !.pc = "name", !.refNames = refNames(chain)]

\* Lines 246-267, and lines 149-151 of TermDocument: the name of the select
\* column, without the table prefix, is looked for in the target scan's
\* column list. With targetScanNode nil, line 260 calls ColumnList() on the
\* nil interface.
TermDocumentColumnName ==
    /\ hover.pc = "name"
    /\ UNCHANGED cache
    /\ UNCHANGED notHover
    /\ \E path \in SelectColumns, columnList \in ColumnLists :
         LET columnName == getSelectColumnName(path)
             name == removeTablePrefix(columnName.name, hover.refNames)
             c == ColumnNamed(columnList, name)
         IN hover' =
              IF ~columnName.ok
                THEN Return([hover EXCEPT !.selectStep = "noname"], "error", <<>>)
              ELSE IF hover.targetScanNode = 0
                THEN Return([hover EXCEPT !.selectStep = "noscan"], "panic", <<>>)
              ELSE IF c = 0
                THEN Return([hover EXCEPT !.selectStep = "nocolumn"], "error", <<>>)
              ELSE [hover EXCEPT !.pc = "schema", !.column = columnList[c]]

\* TermDocument, lines 153-175: the select column's metadata, and the return
\* of nothing when the schema has no field of the name.
TermDocumentSchema ==
    /\ hover.pc = "schema"
    /\ UNCHANGED cache
    /\ UNCHANGED notHover
    /\ \E metadata \in MetaResults :
         LET m == columnMarkedString(hover.column, metadata)
             h == [hover EXCEPT !.selectStep = m.step]
         IN hover' = IF m.returns THEN Return(h, "result", m.result)
                     ELSE Return(h, "empty", <<>>)

HoverInit ==
    /\ cache = [u \in URIs |-> NoFile]
    /\ hover = IdleHover

SchedInit ==
    /\ diagnosticRequest = <<>>
    /\ closed = FALSE
    /\ sent = 0
    /\ loopPc = "recv"
    /\ loopUri = "a.sql"
    /\ running = [u \in URIs |-> NoRun]
    /\ runs = <<>>
    /\ published = <<>>

Init == SchedInit /\ PosIdle /\ SearchIdle /\ HoverInit /\ ScanIdle

Next ==
    \/ \E u \in URIs : DidChange(u)
    \/ CloseRequests
    \/ LoopReceive
    \/ LoopCancel
    \/ LoopStart
    \/ \E r \in 1..Len(runs) : RunDiagnose(r)
    \/ \E r \in 1..Len(runs) : RunNotify(r)

Spec == Init /\ [][Next]_vars

\* The goroutine of handler.diagnostic is scheduled whenever it can take a
\* step: a receive on a channel that holds a value or is closed, cancel() and
\* the go statement do not block. Nothing is assumed of the tasks: a diagnose
\* or a Notify may take for ever.
LoopFairness ==
    /\ WF_vars(LoopReceive)
    /\ WF_vars(LoopCancel)
    /\ WF_vars(LoopStart)

SpecLoop == Init /\ [][Next]_vars /\ LoopFairness

InitPos == SchedInit /\ PosInit /\ SearchIdle /\ HoverInit /\ ScanIdle

NextPos ==
    \/ PositionToByteOffset
    \/ ByteOffsetToPosition

SpecPos == InitPos /\ [][NextPos]_vars

InitSearch == SchedInit /\ PosIdle /\ SearchInit /\ HoverInit /\ ScanIdle

NextSearch ==
    \/ SearchAst
    \/ SearchResolved

SpecSearch == InitSearch /\ [][NextSearch]_vars

InitHover == SchedInit /\ PosIdle /\ SearchIdle /\ HoverInit /\ ScanIdle

NextHover ==
    \/ \E path \in URIs, text \in DocTexts : UpdateFile(path, text)
    \/ \E path \in URIs : DeleteFile(path)
    \/ \E uri \in URIs : TermDocumentLocate(uri)
    \/ TermDocumentTable
    \/ TermDocumentOutput
    \/ TermDocumentResolve
    \/ TermDocumentColumnRef
    \/ TermDocumentScan
    \/ TermDocumentWalk
    \/ TermDocumentColumnName
    \/ TermDocumentSchema

SpecHover == InitHover /\ [][NextHover]_vars

InitScan == SchedInit /\ PosIdle /\ SearchIdle /\ HoverInit /\ ScanInit

NextScan == SelectScan

SpecScan == InitScan /\ [][NextScan]_vars

RunsOf(u) == {r \in 1..Len(runs) : runs[r].uri = u}

Uncancelled(u) == {r \in RunsOf(u) : ~runs[r].cancelled}

\* C1: at every instant at most one run per URI is uncancelled, and it is the
\* run whose handle the map holds: the previous handle is cancelled before the
\* new one is installed.
C1_AtMostOneOutstanding ==
    \A u \in URIs :
        /\ Cardinality(Uncancelled(u)) <= 1
        /\ \A r \in Uncancelled(u) : running[u] = r

C1_Witness ==
    \E u \in URIs : \E r1, r2 \in RunsOf(u) :
        /\ r1 < r2
        /\ runs[r1].cancelled
        /\ ~runs[r2].cancelled
        /\ running[u] = r2

Settled(u) ==
    /\ diagnosticRequest = <<>>
    /\ loopPc \in {"recv", "exit"}
    /\ \A r \in RunsOf(u) : runs[r].pc = "done"

PublishesFor(u) == {i \in 1..Len(published) : published[i].run \in RunsOf(u)}

\* C3: once two or more events for a URI have been handled and the URI has
\* settled, exactly one publish is observed for it, and it comes from the task
\* of the last event.
C3_ExactlyOnePublish ==
    \A u \in URIs :
        (Settled(u) /\ Cardinality(RunsOf(u)) >= 2) =>
            /\ Cardinality(PublishesFor(u)) = 1
            /\ \A i \in PublishesFor(u) : published[i].run = running[u]

\* The tasks the loop started that have not finished.
InFlight == {r \in 1..Len(runs) : runs[r].pc # "done"}

\* C11: once the event stream is closed the loop consumes the events already
\* sent and terminates, whether or not the tasks it started ever finish: the
\* loop never waits for a task.
C11_LoopTerminates == closed ~> (loopPc = "exit")

\* The loop has left while a task it started is still running.
C11_Witness ==
    /\ closed
    /\ loopPc = "exit"
    /\ InFlight # {}

\* The lines of a text, as the specification splits them (on "\n").
InBounds(text, p) ==
    /\ p.line < Len(Split(text))
    /\ p.character <= Len(Split(text)[p.line + 1])

\* The position just past the last character of a line that has a successor:
\* its offset is the line boundary, where the documented tie-break applies.
AtLineBoundary(text, p) ==
    /\ p.line + 1 < Len(Split(text))
    /\ p.character = Len(Split(text)[p.line + 1])

\* C5: for every text and every position within its bounds, other than at the
\* line-boundary tie-break, mapping the position to an offset and back finds
\* the same position.
C5_RoundTrip ==
    (posPc = "done" /\ InBounds(posText, posPosition)
                    /\ ~AtLineBoundary(posText, posPosition)) =>
        posBack = [found |-> TRUE, line |-> posPosition.line,
                   character |-> posPosition.character]

\* The line number of the position is beyond the lines of the text.
BeyondLines(text, p) == p.line >= Len(Split(text))

\* The call of positionToByteOffset has returned an offset to its caller.
ReturnedOffset == posPc \in {"offset", "done"}

\* C12: positionToByteOffset called with a line number beyond the lines of the
\* text fails: it returns no offset to the caller.
C12_BeyondLinesFails == BeyondLines(posText, posPosition) => ~ReturnedOffset

\* The nodes of kind T with a range that holds the offset.
Candidates(tree, T, termOffset) ==
    {i \in 1..Len(tree) :
        tree[i].kind = T /\ tree[i].rng.has /\ InRange(tree[i].rng, termOffset)}

TreeParents(tree) == [i \in 1..Len(tree) |-> tree[i].parent]

\* What the claim asks of a search result.
SearchCorrect(tree, T, termOffset, res) ==
    /\ res.found =>
         /\ res.node \in Candidates(tree, T, termOffset)
         /\ \A c \in Candidates(tree, T, termOffset) :
                res.node \notin Ancestors(TreeParents(tree), c)
    /\ ~res.found <=> Candidates(tree, T, termOffset) = {}

\* C7: searchAstNode and searchResolvedAstNode return found only with a node
\* of kind T whose range exists and holds the offset, with no other candidate
\* nested inside it, and return not-found exactly when there is no candidate.
C7_SearchNode ==
    /\ snPc \in {"ast", "done"} => SearchCorrect(snTree, "T", snOffset, snAst)
    /\ snPc = "done" => SearchCorrect(snTree, "T", snOffset, snResolved)

\* Nested candidates, preceded by a node of kind T without a range: the inner
\* candidate is returned.
C7_Witness ==
    /\ snPc = "done"
    /\ snAst.found /\ snResolved.found /\ snAst = snResolved
    /\ \E c \in Candidates(snTree, "T", snOffset) :
           c \in Ancestors(TreeParents(snTree), snAst.node)
    /\ \E i \in 1..Len(snTree) : snTree[i].kind = "T" /\ ~snTree[i].rng.has

\* C4: a hover for a URI the cache does not hold (never put, or deleted) ends
\* with a "not found" outcome; it neither crashes nor returns a result.
C4_NotFound ==
    (hover.pc = "done" /\ ~GetFile(cache, hover.uri).found) =>
        hover.outcome = "notfound"

\* The located token has a table path expression among its ancestors.
InTableReference == lookupNode(hover.ancestors, 1, "TablePathExpression").found

\* A metadata lookup of this request failed.
LookupFailed ==
    \/ hover.tableStep = "failed"
    \/ hover.columnStep = "failed"
    \/ hover.selectStep = "failed"

\* C6 as stated: when the metadata lookup fails, a hover on a token with a
\* table path expression among its ancestors ends with an error, never with an
\* empty or degraded result; a hover that finds a column reference whose
\* lookup fails ends with the result "name: type" and no error.
C6_FailureOutcomes ==
    hover.pc = "done" =>
        /\ (InTableReference /\ LookupFailed) => hover.outcome = "error"
        /\ hover.columnStep = "failed" =>
              /\ hover.outcome = "result"
              /\ hover.result = InferredTypeString(hover.column)

\* C6, amended: when the lookup of the table step fails (the table path
\* expression has a path, so the lookup is made), the hover ends with an error;
\* when the column reference step's lookup fails, the hover ends with the
\* result "name: type" of the statically known column, and no error.
C6_FailureOutcomesAmended ==
    /\ hover.tableStep = "failed" =>
          hover.pc = "done" /\ hover.outcome = "error" /\ hover.result = <<>>
    /\ hover.columnStep = "failed" =>
          /\ hover.pc = "done"
          /\ hover.outcome = "result"
          /\ hover.result = InferredTypeString(hover.column)

C6_Witness ==
    /\ hover.pc = "done"
    /\ InTableReference
    /\ hover.tableStep = "failed"
    /\ hover.outcome = "error"

\* The column reference half of C6 happens too.
C6_WitnessColumn ==
    /\ hover.pc = "done"
    /\ hover.columnStep = "failed"
    /\ hover.result = <<Markdown(<<<<"x">>, ": ", "INT64">>)>>

\* C8: a hover on a held document in which no step produced output (and no
\* step failed on the table lookup or on an unresolved column) ends empty, not
\* with an error or a crash; so also when the select-alias step finds no scan
\* or no column of the name.
C8_EmptyWhenNoOutput ==
    (/\ hover.pc = "done"
     /\ GetFile(cache, hover.uri).found
     /\ hover.tableStep # "failed"
     /\ hover.columnStep # "nil"
     /\ hover.outcome # "result") => hover.outcome = "empty"

\* C9: when the column reference step's lookup succeeds and the schema has no
\* field of the column's name, the hover ends there with the result
\* "name: type", as on a lookup failure.
C9_DegradedOnNoField ==
    hover.columnStep = "nofield" =>
        /\ hover.pc = "done"
        /\ hover.outcome = "result"
        /\ hover.result = InferredTypeString(hover.column)

\* C10: the scan chosen holds the offset in its range, and no scan whose
\* range holds the offset is narrower.
C10_NarrowestContaining ==
    (scPc = "done" /\ scTarget # 0) =>
        /\ InRange(scScanNodes[scTarget], scOffset)
        /\ \A j \in 1..Len(scScanNodes) :
              (scScanNodes[j].has /\ InRange(scScanNodes[j], scOffset)) =>
                  scScanNodes[scTarget].end - scScanNodes[scTarget].start
                      <= scScanNodes[j].end - scScanNodes[j].start

====
